---------------------------- MODULE Spec2Model ----------------------------
(***************************************************************************)
(* A model of fourier_demo.py: the ASCII renderer draw_ascii_graph, the    *)
(* spectrum computation compute_fft_magnitudes, the sawtooth generator     *)
(* generate_sawtooth and the menu loop main.                               *)
(*                                                                         *)
(* Numbers.  Sample values handed to the renderer and to the spectrum      *)
(* computation are whole numbers: their sums, differences and halves are   *)
(* exact in double arithmetic, and the comparison of val_row with a row is *)
(* decided here by cross-multiplication, which on these values gives the   *)
(* answer the double computation gives.  Text is a sequence of             *)
(* one-character strings, so that the length of a                          *)
(* formatted number is computed and not assumed.                           *)
(***************************************************************************)
EXTENDS Integers, Sequences, FiniteSets, TLC

VARIABLES
    \* draw_ascii_graph: arguments, locals, and what it printed
    values, title, width, height,
    v_min, v_max, v_range, rawidx, resampled, labels, printed, rpc,
    \* compute_fft_magnitudes and the peak report of main
    signal, magnitudes, peak, fpc,
    \* generate_sawtooth
    num_samples, periods, samples, spc,
    \* main
    pc, choice, name, log, reads

renderVars == <<values, title, width, height, v_min, v_max, v_range, rawidx,
                resampled, labels, printed, rpc>>
fftVars    == <<signal, magnitudes, peak, fpc>>
sawVars    == <<num_samples, periods, samples, spc>>
mainVars   == <<pc, choice, name, log, reads>>
vars       == <<renderVars, fftVars, sawVars, mainVars>>

--------------------------------------------------------------------------
(* Bounds of the model *)

MaxLen    == 3      \* longest sequence handed to the renderer
MaxAmp    == 2      \* small sample values are -MaxAmp..MaxAmp
BigAmp    == 10000  \* one large magnitude (and its negative) besides
MaxWidth  == 4      \* widths 1..MaxWidth
MaxHeight == 4      \* heights 2..MaxHeight

Abs(x) == IF x < 0 THEN -x ELSE x

RECURSIVE SeqsUpTo(_, _)
\* all sequences over S of length 1..n
SeqsUpTo(S, n) ==
    IF n = 0 THEN {}
    ELSE SeqsUpTo(S, n - 1) \cup [1..n -> S]

RenderValues == (-MaxAmp..MaxAmp) \cup {BigAmp, -BigAmp}
Titles == {"Time Domain", "Frequency Domain"}

--------------------------------------------------------------------------
(* Text *)

DigitChars == <<"0", "1", "2", "3", "4", "5", "6", "7", "8", "9">>

RECURSIVE Digits(_)
\* the decimal digits of a natural number, most significant first
Digits(n) ==
    IF n < 10 THEN <<DigitChars[n + 1]>>
    ELSE Append(Digits(n \div 10), DigitChars[(n % 10) + 1])

RECURSIVE Repeat(_, _)
Repeat(c, n) == IF n <= 0 THEN <<>> ELSE <<c>> \o Repeat(c, n - 1)

\* the format spec ">7": right-aligned in a field of at least 7 characters;
\* a longer text is not cut
PadLeft7(s) == Repeat(" ", 7 - Len(s)) \o s

\* f"{x:>7.2f}" for the number x = h / 100 (h its value in hundredths)
Format72f(h) ==
    LET a    == Abs(h)
        sign == IF h < 0 THEN <<"-">> ELSE <<>>
        text == sign \o Digits(a \div 100) \o <<".">>
                     \o <<DigitChars[((a % 100) \div 10) + 1],
                          DigitChars[(a % 10) + 1]>>
    IN  PadLeft7(text)

--------------------------------------------------------------------------
(* draw_ascii_graph *)

RECURSIVE SeqMin(_)
SeqMin(s) ==
    IF Len(s) = 1 THEN s[1]
    ELSE LET m == SeqMin(Tail(s)) IN IF s[1] < m THEN s[1] ELSE m

RECURSIVE SeqMax(_)
SeqMax(s) ==
    IF Len(s) = 1 THEN s[1]
    ELSE LET m == SeqMax(Tail(s)) IN IF s[1] > m THEN s[1] ELSE m

VRangeNoGuard(lo, hi) == hi - lo

\* v_range = v_max - v_min if v_max != v_min else 1.0
VRange(lo, hi) == IF hi # lo THEN hi - lo ELSE 1

RawIdxCeil(col, len, w) == (col * len + w - 1) \div w

\* idx = int(col * len(values) / width), col counted from 0
RawIdx(col, len, w) == (col * len) \div w

\* idx = min(idx, len(values) - 1)
ClampIdx(idx, len) == IF idx < len - 1 THEN idx ELSE len - 1

LabelMidFirst(row, h, lo, hi) ==
    IF row = 0 THEN Format72f(100 * hi) \o <<" ", "|">>
    ELSE IF row = h \div 2 THEN Format72f(50 * (hi + lo)) \o <<" ", "|">>
    ELSE IF row = h - 1 THEN Format72f(100 * lo) \o <<" ", "|">>
    ELSE Repeat(" ", 8) \o <<"|">>

\* the y-axis label of a row (rows counted from 0)
Label(row, h, lo, hi) ==
    IF row = 0 THEN Format72f(100 * hi) \o <<" ", "|">>
    ELSE IF row = h - 1 THEN Format72f(100 * lo) \o <<" ", "|">>
    ELSE IF row = h \div 2 THEN Format72f(50 * (hi + lo)) \o <<" ", "|">>
    ELSE Repeat(" ", 8) \o <<"|">>

\* abs(val_row - row) < 0.5 with val_row = (v_max - val) / v_range * (height - 1),
\* both sides multiplied by 2 * v_range (which is positive)
Marked(val, row, h, hi, range) ==
    Abs(2 * (hi - val) * (h - 1) - 2 * row * range) < range

PlotLine(res, row, h, hi, range) ==
    [c \in 1..Len(res) |->
        IF Marked(res[c], row, h, hi, range) THEN "*" ELSE " "]

TitleLines(t) ==
    << <<>>, <<" ", " ", "=", "=", "=", " ", t, " ", "=", "=", "=">>, <<>> >>

AxisLine(w) == Repeat(" ", 8) \o <<"+">> \o Repeat("-", w)

RenderInit ==
    /\ values \in SeqsUpTo(RenderValues, MaxLen)
    /\ title \in Titles
    /\ width \in 1..MaxWidth
    /\ height \in 2..MaxHeight
    /\ v_min = 0 /\ v_max = 0 /\ v_range = 0
    /\ rawidx = <<>> /\ resampled = <<>> /\ labels = <<>> /\ printed = <<>>
    /\ rpc = "call"

RenderIdle ==
    /\ values = <<0>> /\ title = "" /\ width = 1 /\ height = 2
    /\ v_min = 0 /\ v_max = 0 /\ v_range = 0
    /\ rawidx = <<>> /\ resampled = <<>> /\ labels = <<>> /\ printed = <<>>
    /\ rpc = "idle"

DrawAsciiGraph ==
    /\ rpc = "call"
    /\ LET lo    == SeqMin(values)
           hi    == SeqMax(values)
           range == VRange(lo, hi)
           raw   == [c \in 1..width |-> RawIdx(c - 1, Len(values), width)]
           res   == [c \in 1..width |->
                        values[ClampIdx(raw[c], Len(values)) + 1]]
           labs  == [r \in 1..height |-> Label(r - 1, height, lo, hi)]
           rows  == [r \in 1..height |->
                        labs[r] \o PlotLine(res, r - 1, height, hi, range)]
       IN  /\ v_min' = lo
           /\ v_max' = hi
           /\ v_range' = range
           /\ rawidx' = raw
           /\ resampled' = res
           /\ labels' = labs
           /\ printed' = TitleLines(title) \o rows \o <<AxisLine(width)>>
    /\ rpc' = "done"
    /\ UNCHANGED <<values, title, width, height>>
    /\ UNCHANGED <<fftVars, sawVars, mainVars>>


--------------------------------------------------------------------------
(* compute_fft_magnitudes *)

(***************************************************************************)
(* np.fft.fft computes X[k] = SUM_j x[j] * w^(j*k) with w = exp(-2*pi*i/n). *)
(* A bin is kept exactly as its coefficients on the powers w^0 .. w^(n-1). *)
(* For n in {1, 2, 3, 4, 6} the number 2*cos(2*pi*d/n) is an integer, so   *)
(* twice the squared modulus of a bin is an integer, computed exactly.     *)
(* A magnitude is the real number (num / den) * sqrt(q2 / 2), kept as the  *)
(* record [num, den, q2]: np.abs yields [1, 1, 2*|X|^2], the division by n *)
(* multiplies den, the doubling multiplies num.                            *)
(***************************************************************************)

MaxSignalLen == 6   \* longest signal handed to the spectrum computation
MaxSigAmp    == 1   \* its samples are -MaxSigAmp..MaxSigAmp

\* the lengths on which the transform is computed exactly
ExactLens == {1, 2, 3, 4, 6}

Signals ==
    UNION {[1..n -> -MaxSigAmp..MaxSigAmp] : n \in (1..MaxSignalLen) \cap ExactLens}

\* 2 * cos(2 * pi * d / n) for n in ExactLens
TwoCos(d, n) ==
    LET r == d % n
    IN  CASE n = 1 -> 2
          [] n = 2 -> <<2, -2>>[r + 1]
          [] n = 3 -> <<2, -1, -1>>[r + 1]
          [] n = 4 -> <<2, 0, -2, 0>>[r + 1]
          [] n = 6 -> <<2, 1, -1, -2, -1, 1>>[r + 1]

RECURSIVE SumOver(_, _)
\* the sum of f[i] over the finite set S
SumOver(f, S) ==
    IF S = {} THEN 0
    ELSE LET i == CHOOSE x \in S : TRUE IN f[i] + SumOver(f, S \ {i})

\* bin k of np.fft.fft(x), k counted from 0: its coefficient on each w^m
FftBin(x, k) ==
    LET n == Len(x)
    IN  [m \in 0..(n - 1) |->
            SumOver([j \in 1..n |-> x[j]],
                    {j \in 1..n : ((j - 1) * k) % n = m})]

\* twice the squared modulus of a bin
TwiceSqAbs(c, n) ==
    LET pairs == (0..(n - 1)) \X (0..(n - 1))
    IN  SumOver([pr \in pairs |-> c[pr[1]] * c[pr[2]] * TwoCos(pr[1] - pr[2] + n, n)],
                pairs)

ScaleAllBins(m) ==
    [i \in 1..Len(m) |-> [m[i] EXCEPT !.num = 2 * @]]

\* magnitudes[1:] *= 2
DoubleNonDC(m) ==
    [i \in 1..Len(m) |-> IF i = 1 THEN m[i] ELSE [m[i] EXCEPT !.num = 2 * @]]

\* np.abs(fft_result[:n // 2]) / n
HalfSpectrum(x) ==
    LET n == Len(x)
    IN  [b \in 1..(n \div 2) |->
            [num |-> 1, den |-> n, q2 |-> TwiceSqAbs(FftBin(x, b - 1), n)]]

ComputeFftMagnitudes(x) == DoubleNonDC(HalfSpectrum(x))

\* the square of a magnitude, as a fraction <<numerator, denominator>>
MagSq(a) == <<a.num * a.num * a.q2, 2 * a.den * a.den>>

NonNegative(a) == a.num >= 0 /\ a.den > 0 /\ a.q2 >= 0

\* a < b and a = b for non-negative magnitudes, by their squares
MagLess(a, b) == MagSq(a)[1] * MagSq(b)[2] < MagSq(b)[1] * MagSq(a)[2]
MagEq(a, b)   == MagSq(a)[1] * MagSq(b)[2] = MagSq(b)[1] * MagSq(a)[2]

RECURSIVE MagMax(_)
\* max() of a non-empty list of magnitudes
MagMax(m) ==
    IF Len(m) = 1 THEN m[1]
    ELSE LET t == MagMax(Tail(m)) IN IF MagLess(m[1], t) THEN t ELSE m[1]

\* list.index: the position (from 0) of the first element equal to x
IndexOf(m, x) == (CHOOSE i \in 1..Len(m) :
                    /\ MagEq(m[i], x)
                    /\ \A j \in 1..(i - 1) : ~MagEq(m[j], x)) - 1

\* magnitudes.index(max(magnitudes[1:])); max of an empty list raises
PeakBin(m) ==
    IF Len(m) < 2 THEN "ValueError" ELSE IndexOf(m, MagMax(Tail(m)))

FftInit ==
    /\ signal \in Signals
    /\ magnitudes = <<>>
    /\ peak = "none"
    /\ fpc = "call"

FftIdle ==
    /\ signal = <<0>> /\ magnitudes = <<>> /\ peak = "none" /\ fpc = "idle"

ComputeSpectrum ==
    /\ fpc = "call"
    /\ magnitudes' = ComputeFftMagnitudes(signal)
    /\ fpc' = "computed"
    /\ UNCHANGED <<signal, peak>>
    /\ UNCHANGED <<renderVars, sawVars, mainVars>>

ReportPeak ==
    /\ fpc = "computed"
    /\ peak' = PeakBin(magnitudes)
    /\ fpc' = "reported"
    /\ UNCHANGED <<signal, magnitudes>>
    /\ UNCHANGED <<renderVars, sawVars, mainVars>>

--------------------------------------------------------------------------
(* generate_sawtooth *)

(***************************************************************************)
(* Python floats are IEEE doubles.  A double is kept as [m, e], the number *)
(* m * 2^e with m a small natural number.  With num_samples a power of two *)
(* and periods = m * 2^e, the product periods * i, the quotient by         *)
(* num_samples, the remainder % 1.0 and the product 2.0 * phase are exact  *)
(* in double arithmetic; only the subtraction of 1.0 rounds (to nearest,   *)
(* ties to even), when its exact result needs more than 53 bits.  A sample *)
(* is kept as [u, f], the double -1 + u * 2^f.                             *)
(***************************************************************************)

MaxLogN     == 3    \* num_samples is 1, 2, .. 2^MaxLogN
MaxMant     == 5    \* periods = m * 2^e with m in 1..MaxMant
MaxFracBits == 2    \* ordinary periods: e in -MaxFracBits..0
TinyExp     == 56   \* tiny periods: e = -TinyExp
MantBits    == 53   \* the significand of a double

RECURSIVE Pow2(_)
Pow2(n) == IF n <= 0 THEN 1 ELSE 2 * Pow2(n - 1)

PeriodsSet ==
    [m : 1..MaxMant, e : ((-MaxFracBits)..0) \cup {-TinyExp}]

\* x * i and x / 2^k, both exact
FMulInt(x, i) == [m |-> x.m * i, e |-> x.e]
FDivPow2(x, k) == [m |-> x.m, e |-> x.e - k]

\* floor(x) for x >= 0; a number below 2^-30 * 2^30 has floor 0
FFloor(x) ==
    IF x.e >= 0 THEN x.m * Pow2(x.e)
    ELSE IF -x.e > 30 THEN 0
    ELSE x.m \div Pow2(-x.e)

FMod1NoWrap(x) == x

\* x % 1.0 for x >= 0 (exact)
FMod1(x) ==
    IF x.e >= 0 THEN [m |-> 0, e |-> x.e]
    ELSE IF -x.e > 30 THEN x
    ELSE [m |-> x.m % Pow2(-x.e), e |-> x.e]

\* a / 2^s rounded to the nearest integer, a tie to the even one
RoundHalfEven(a, s) ==
    IF s > 30 THEN 0
    ELSE LET d == Pow2(s)
             q == a \div d
             r == a % d
         IN  IF 2 * r < d THEN q
             ELSE IF 2 * r > d THEN q + 1
             ELSE IF q % 2 = 0 THEN q ELSE q + 1

\* 2.0 * phase - 1.0: exact while 2^-f - m fits the significand, and
\* otherwise rounded to a multiple of 2^-MantBits, the spacing of the
\* doubles in [-1, -0.5]
SawSample(phase) ==
    LET f == phase.e + 1
    IN  IF f >= -MantBits THEN [u |-> phase.m, f |-> f]
        ELSE [u |-> RoundHalfEven(phase.m, -(f + MantBits)), f |-> -MantBits]

SawPhase(p, i, k) == FMod1(FDivPow2(FMulInt(p, i), k))

\* generate_sawtooth(2^k, p)
GenerateSawtooth(k, p) ==
    [j \in 1..Pow2(k) |-> SawSample(SawPhase(p, j - 1, k))]

\* the period sample i (from 0) falls in: floor(periods * i / num_samples)
SawPeriod(p, i, k) == FFloor(FDivPow2(FMulInt(p, i), k))

\* -1 <= s < 1 for the sample s = -1 + u * 2^f
InUnitRange(s) ==
    /\ s.u >= 0
    /\ IF s.f > 1 THEN s.u = 0
       ELSE IF 1 - s.f > 30 THEN s.u < Pow2(30)
       ELSE s.u < Pow2(1 - s.f)

SawInit ==
    /\ num_samples \in {Pow2(k) : k \in 0..MaxLogN}
    /\ periods \in PeriodsSet
    /\ samples = <<>>
    /\ spc = "call"

SawIdle ==
    /\ num_samples = 1 /\ periods = [m |-> 1, e |-> 0] /\ samples = <<>>
    /\ spc = "idle"

LogN == CHOOSE k \in 0..(MaxLogN + 1) : Pow2(k) = num_samples

CallGenerateSawtooth ==
    /\ spc = "call"
    /\ samples' = GenerateSawtooth(LogN, periods)
    /\ spc' = "done"
    /\ UNCHANGED <<num_samples, periods>>
    /\ UNCHANGED <<renderVars, fftVars, mainVars>>

--------------------------------------------------------------------------
(* main *)

NumSamples  == 128  \* num_samples = 128
Periods     == 4    \* periods = 4
DisplayBins == 32   \* display_bins = magnitudes[:32]
MaxReads    == 3    \* the model stops reading after MaxReads selections

\* what the user may type, as characters
RawInputs ==
    { <<"1">>, <<" ", "2", " ">>, <<"3">>, <<"q">>, <<" ", "Q">>,
      <<"x">>, <<>>, <<"1", "2">> }

RECURSIVE StripLeft(_)
StripLeft(s) ==
    IF s # <<>> /\ s[1] = " " THEN StripLeft(Tail(s)) ELSE s

RECURSIVE StripRight(_)
StripRight(s) ==
    IF s # <<>> /\ s[Len(s)] = " " THEN StripRight(SubSeq(s, 1, Len(s) - 1)) ELSE s

\* str.strip()
Strip(s) == StripRight(StripLeft(s))

\* str.lower()
Lower(s) ==
    [i \in 1..Len(s) |-> CASE s[i] = "Q" -> "q" [] s[i] = "X" -> "x" [] OTHER -> s[i]]

\* input(...).strip().lower()
ReadLine(raw) == Lower(Strip(raw))

WaveOf(c) ==
    CASE c = <<"1">> -> "Sine Wave"
      [] c = <<"2">> -> "Square Wave"
      [] c = <<"3">> -> "Sawtooth Wave"

IsWave(c) == c \in { <<"1">>, <<"2">>, <<"3">> }

Min(a, b) == IF a < b THEN a ELSE b

MainInit ==
    /\ pc = "menu" /\ choice = <<>> /\ name = "" /\ log = <<>> /\ reads = 0

MainIdle ==
    /\ pc = "idle" /\ choice = <<>> /\ name = "" /\ log = <<>> /\ reads = 0

\* the menu is printed and a line is read; choice == "q": break
QuitChoice ==
    /\ pc = "menu" /\ reads < MaxReads
    /\ \E raw \in RawInputs :
        /\ ReadLine(raw) = <<"q">>
        /\ choice' = ReadLine(raw)
        /\ log' = log \o << <<"menu", 0>>, <<"input", raw>>, <<"bye", 0>> >>
    /\ reads' = reads + 1
    /\ pc' = "exit"
    /\ UNCHANGED name
    /\ UNCHANGED <<renderVars, fftVars, sawVars>>

\* choice "1", "2" or "3": the signal is generated
WaveChoice ==
    /\ pc = "menu" /\ reads < MaxReads
    /\ \E raw \in RawInputs :
        /\ IsWave(ReadLine(raw))
        /\ choice' = ReadLine(raw)
        /\ name' = WaveOf(ReadLine(raw))
        /\ log' = log \o << <<"menu", 0>>, <<"input", raw>>,
                            <<"generate", WaveOf(ReadLine(raw))>> >>
    /\ reads' = reads + 1
    /\ pc' = "time"
    /\ UNCHANGED <<renderVars, fftVars, sawVars>>

InvalidFallsThrough ==
    /\ pc = "menu" /\ reads < MaxReads
    /\ \E raw \in RawInputs :
        /\ ReadLine(raw) # <<"q">> /\ ~IsWave(ReadLine(raw))
        /\ choice' = ReadLine(raw)
        /\ log' = log \o << <<"menu", 0>>, <<"input", raw>>, <<"invalid", 0>> >>
    /\ reads' = reads + 1
    /\ pc' = "time"
    /\ UNCHANGED name
    /\ UNCHANGED <<renderVars, fftVars, sawVars>>

\* any other choice: "Invalid choice. Try again." and continue
InvalidChoice ==
    /\ pc = "menu" /\ reads < MaxReads
    /\ \E raw \in RawInputs :
        /\ ReadLine(raw) # <<"q">> /\ ~IsWave(ReadLine(raw))
        /\ choice' = ReadLine(raw)
        /\ log' = log \o << <<"menu", 0>>, <<"input", raw>>, <<"invalid", 0>> >>
    /\ reads' = reads + 1
    /\ pc' = "menu"
    /\ UNCHANGED name
    /\ UNCHANGED <<renderVars, fftVars, sawVars>>

\* draw_ascii_graph(signal, ...)
DrawTimeDomain ==
    /\ pc = "time"
    /\ log' = Append(log, <<"draw", NumSamples>>)
    /\ pc' = "fft"
    /\ UNCHANGED <<choice, name, reads>>
    /\ UNCHANGED <<renderVars, fftVars, sawVars>>

\* magnitudes = compute_fft_magnitudes(signal): n // 2 bins
ComputeMagnitudes ==
    /\ pc = "fft"
    /\ log' = Append(log, <<"fft", NumSamples \div 2>>)
    /\ pc' = "freq"
    /\ UNCHANGED <<choice, name, reads>>
    /\ UNCHANGED <<renderVars, fftVars, sawVars>>

\* draw_ascii_graph(magnitudes[:32], ...)
DrawFrequencyDomain ==
    /\ pc = "freq"
    /\ log' = Append(log, <<"draw", Min(DisplayBins, NumSamples \div 2)>>)
    /\ pc' = "peak"
    /\ UNCHANGED <<choice, name, reads>>
    /\ UNCHANGED <<renderVars, fftVars, sawVars>>

\* print("Peak frequency bin: ... (expect ~periods)")
PrintPeak ==
    /\ pc = "peak"
    /\ log' = Append(log, <<"peak", Periods>>)
    /\ pc' = "menu"
    /\ UNCHANGED <<choice, name, reads>>
    /\ UNCHANGED <<renderVars, fftVars, sawVars>>

--------------------------------------------------------------------------
(* Specifications *)

NextRender == DrawAsciiGraph

NextFft == ComputeSpectrum \/ ReportPeak

NextSaw == CallGenerateSawtooth

NextMain ==
    \/ QuitChoice
    \/ WaveChoice
    \/ InvalidChoice
    \/ DrawTimeDomain
    \/ ComputeMagnitudes
    \/ DrawFrequencyDomain
    \/ PrintPeak

\* draw_ascii_graph on every bounded input
InitRender == RenderInit /\ FftIdle /\ SawIdle /\ MainIdle

SpecRender == InitRender /\ [][NextRender]_vars

\* compute_fft_magnitudes and the peak report on every bounded signal
InitFft == RenderIdle /\ FftInit /\ SawIdle /\ MainIdle

SpecFft == InitFft /\ [][NextFft]_vars

\* generate_sawtooth on every bounded input
InitSaw == RenderIdle /\ FftIdle /\ SawInit /\ MainIdle

SpecSaw == InitSaw /\ [][NextSaw]_vars

\* the menu loop
InitMain == RenderIdle /\ FftIdle /\ SawIdle /\ MainInit

SpecMain == InitMain /\ [][NextMain]_vars

--------------------------------------------------------------------------
(* Properties of draw_ascii_graph *)

\* the printed line of row r (rows counted from 1 here), after the title
RowLine(r) == printed[3 + r]

\* the plot character of row r, column c: what follows the row's label
PlotChar(r, c) == RowLine(r)[Len(labels[r]) + c]

MarkedRows(c) == {r \in 1..height : PlotChar(r, c) = "*"}

\* C1: the render emits height row lines and then one axis-rule line, and
\* every row line is exactly 9 + width characters long: a 9-character
\* label and width plot characters, each "*" or " ", whatever the
\* magnitudes of the labelled values.
C1_RowLinesAreNinePlusWidth ==
    rpc = "done" =>
        /\ Len(printed) = 3 + height + 1
        /\ printed[Len(printed)] = AxisLine(width)
        /\ \A r \in 1..height :
            /\ Len(RowLine(r)) = 9 + width
            /\ \A c \in 10..(9 + width) : RowLine(r)[c] \in {"*", " "}

\* C2: every output column carries exactly one mark over the height rows.
C2_OneMarkPerColumn ==
    rpc = "done" => \A c \in 1..width : Cardinality(MarkedRows(c)) = 1

\* column c lies exactly halfway between rows k and k + 1 (counted from 0)
TieAt(c, k) ==
    2 * (v_max - resampled[c]) * (height - 1) = (2 * k + 1) * v_range

\* C3: a column whose val_row is exactly k + 0.5 is marked at row k and at
\* no other row (ties go to the lower row index).
C3_TieGoesToLowerRow ==
    rpc = "done" =>
        \A c \in 1..width : \A k \in 0..(height - 2) :
            TieAt(c, k) => MarkedRows(c) = {k + 1}

MaxLabel == Format72f(100 * v_max) \o <<" ", "|">>
MinLabel == Format72f(100 * v_min) \o <<" ", "|">>
MidLabel == Format72f(50 * (v_max + v_min)) \o <<" ", "|">>
BlankLabel == <<" ", " ", " ", " ", " ", " ", " ", " ", "|">>

\* C4 as claimed: row 0 shows v_max, row height - 1 shows v_min, row
\* height // 2 shows the midpoint, for every height >= 2, and every other
\* row is blank.
C4_ThreeLabelsAlways ==
    rpc = "done" =>
        /\ labels[1] = MaxLabel
        /\ labels[height] = MinLabel
        /\ labels[(height \div 2) + 1] = MidLabel
        /\ \A r \in 1..height :
            r \notin {1, height, (height \div 2) + 1} => labels[r] = BlankLabel

\* C4 as amended: row 0 shows v_max and row height - 1 shows v_min for
\* every height >= 2; row height // 2 shows the midpoint when height >= 3;
\* for height = 2 that row is the last row and shows v_min, so no midpoint
\* label is printed; every other row is blank.
C4_LabelsByPrecedence ==
    rpc = "done" =>
        /\ labels[1] = MaxLabel
        /\ labels[height] = MinLabel
        /\ height >= 3 => labels[(height \div 2) + 1] = MidLabel
        /\ height = 2 => labels[(height \div 2) + 1] = MinLabel
        /\ \A r \in 1..height :
            r \notin {1, height, (height \div 2) + 1} => labels[r] = BlankLabel
        /\ \A r \in 1..height : SubSeq(RowLine(r), 1, Len(labels[r])) = labels[r]

\* a render of height 2 whose minimum and midpoint read differently
C4_Witness ==
    /\ rpc = "done" /\ height = 2 /\ MinLabel # MidLabel
    /\ labels = <<MaxLabel, MinLabel>>

\* C5: the divisor v_range is never zero; on a constant sequence it is 1,
\* the top, middle (row height // 2) and bottom labels all show the common
\* value, and all the rows and the axis line are printed.
C5_FlatSignalRenders ==
    rpc = "done" =>
        /\ v_range # 0
        /\ (\A i \in 1..Len(values) : values[i] = values[1]) =>
            /\ v_range = 1
            /\ v_max = values[1] /\ v_min = values[1]
            /\ LET shown == Format72f(100 * values[1]) \o <<" ", "|">>
               IN  /\ labels[1] = shown
                   /\ labels[(height \div 2) + 1] = shown
                   /\ labels[height] = shown
            /\ Len(printed) = 3 + height + 1
            /\ printed[Len(printed)] = AxisLine(width)
            /\ \A c \in 1..width : MarkedRows(c) = {1}

\* a constant non-zero sequence of several samples, rendered on 3 rows or more
C5_Witness ==
    /\ rpc = "done" /\ Len(values) >= 2 /\ height >= 3
    /\ \A i \in 1..Len(values) : values[i] = values[1]
    /\ values[1] = -1
    /\ v_range = 1

\* C10: the source index of column c is floor(c * L / W); it lies in
\* 0..L-1, so the clamp never changes it; column 0 shows values[0]; the
\* index is non-decreasing in c; and when W >= L every source index is
\* picked by some column.
C10_ResamplingInRange ==
    rpc = "done" =>
        LET L == Len(values)
            W == width
        IN  /\ Len(rawidx) = W /\ Len(resampled) = W
            /\ \A c \in 1..W :
                /\ rawidx[c] * W <= (c - 1) * L
                /\ (c - 1) * L < (rawidx[c] + 1) * W
                /\ rawidx[c] \in 0..(L - 1)
                /\ ClampIdx(rawidx[c], L) = rawidx[c]
                /\ resampled[c] = values[rawidx[c] + 1]
            /\ resampled[1] = values[1]
            /\ \A c \in 1..(W - 1) : rawidx[c] <= rawidx[c + 1]
            /\ W >= L => \A i \in 0..(L - 1) : \E c \in 1..W : rawidx[c] = i

\* more columns than samples, a sample shown twice, distinct samples
C10_Witness ==
    /\ rpc = "done" /\ width > Len(values) /\ Len(values) >= 2
    /\ values[1] # values[2]
    /\ \E c \in 1..(width - 1) : rawidx[c] = rawidx[c + 1]
    /\ rawidx[width] = Len(values) - 1

--------------------------------------------------------------------------
(* Properties of compute_fft_magnitudes and of the peak report *)

SignalSum == SumOver([j \in 1..Len(signal) |-> signal[j]], 1..Len(signal))

\* the magnitude a equals |sum(signal)| / N
IsAbsMean(a) ==
    /\ NonNegative(a)
    /\ MagSq(a)[1] * Len(signal) * Len(signal) = MagSq(a)[2] * SignalSum * SignalSum

\* the magnitude a equals 2 * |X[k]| / N
IsDoubledBin(a, k) ==
    /\ NonNegative(a)
    /\ MagSq(a)[1] * Len(signal) * Len(signal)
         = MagSq(a)[2] * 2 * TwiceSqAbs(FftBin(signal, k), Len(signal))

\* C6 as claimed: for every signal of length N >= 1, N = 1 included, the
\* result has floor(N/2) non-negative values and its bin 0 equals
\* |sum(signal)| / N, every bin >= 1 being doubled.
C6_BinZeroIsAbsMean ==
    fpc # "call" =>
        /\ Len(magnitudes) = Len(signal) \div 2
        /\ \A b \in 1..Len(magnitudes) : NonNegative(magnitudes[b])
        /\ Len(magnitudes) >= 1 /\ IsAbsMean(magnitudes[1])
        /\ \A b \in 2..Len(magnitudes) : IsDoubledBin(magnitudes[b], b - 1)

\* C6 as amended: the result has floor(N/2) non-negative values; for
\* N >= 2 its bin 0 equals |sum(signal)| / N (divided by N, not doubled)
\* and every bin >= 1 is the raw magnitude divided by N and doubled; for
\* N = 1 the result is empty and has no bin 0.
C6_SpectrumScaling ==
    fpc # "call" =>
        /\ Len(magnitudes) = Len(signal) \div 2
        /\ \A b \in 1..Len(magnitudes) : NonNegative(magnitudes[b])
        /\ Len(signal) >= 2 => IsAbsMean(magnitudes[1])
        /\ Len(signal) = 1 => magnitudes = <<>>
        /\ \A b \in 2..Len(magnitudes) : IsDoubledBin(magnitudes[b], b - 1)

\* a signal of six samples with a non-zero mean and non-zero bins 1 and 2
C6_Witness ==
    /\ fpc = "computed" /\ Len(signal) = 6 /\ Len(magnitudes) = 3
    /\ SignalSum # 0
    /\ magnitudes[1].num = 1 /\ magnitudes[1].q2 # 0
    /\ magnitudes[2].num = 2 /\ magnitudes[2].q2 # 0
    /\ magnitudes[3].num = 2 /\ magnitudes[3].q2 # 0

\* C8: the reported peak index is the index of the largest non-DC bin: it
\* is at least 1 and its magnitude is the maximum over bins 1..len-1,
\* also when the DC bin equals that maximum.
C8_PeakIsNonDCBin ==
    (fpc = "reported" /\ Len(magnitudes) >= 2) =>
        /\ peak \in 1..(Len(magnitudes) - 1)
        /\ \A b \in 2..Len(magnitudes) :
            ~MagLess(magnitudes[peak + 1], magnitudes[b])

--------------------------------------------------------------------------
(* Properties of generate_sawtooth *)

\* samples i and i + 1 (counted from 0) fall in the same period
SamePeriod(i) == SawPeriod(periods, i, LogN) = SawPeriod(periods, i + 1, LogN)

--------------------------------------------------------------------------
(* Properties of main *)

\* the events that may directly follow an event of the log
Follows(ev) ==
    CASE ev[1] = "menu" -> {"input"}
      [] ev[1] = "input" ->
            IF ReadLine(ev[2]) = <<"q">> THEN {"bye"}
            ELSE IF ReadLine(ev[2]) \in { <<"1">>, <<"2">>, <<"3">> }
                 THEN {"generate"}
                 ELSE {"invalid"}
      [] ev[1] = "invalid" -> {"menu"}
      [] ev[1] = "generate" -> {"draw"}
      [] ev[1] = "draw" -> IF ev[2] = NumSamples THEN {"fft"} ELSE {"peak"}
      [] ev[1] = "fft" -> {"draw"}
      [] ev[1] = "peak" -> {"menu"}
      [] ev[1] = "bye" -> {}

==========================================================================
